---------------------------- MODULE Spec2Model ----------------------------
(***************************************************************************)
(* ContinuousTimeMSM (msmbuilder/msm/ratematrix.py): the fit pipeline      *)
(* (lag-time validation, counting, initial guess, two-phase sparse         *)
(* optimization, post-fit derivation) and the lazily cached information    *)
(* matrix behind the three uncertainty accessors.                          *)
(*                                                                         *)
(* External numerical kernels (_transition_counts, _transmat_mle_prinz,    *)
(* scipy.optimize.minimize, _ratematrix.*, expm, eigvals, pinv) are        *)
(* uninterpreted: a kernel's result is a tagged tuple of the arguments it  *)
(* was called with, or a value drawn from a small set where the result     *)
(* steers control flow (the optimizer's x and fun, the oracle's f).        *)
(* theta entries are integers standing for natural logarithms.             *)
(***************************************************************************)
EXTENDS Integers, Sequences, FiniteSets, TLC

VARIABLES
    lag_time,       \* self.lag_time, in half units (3 is the float 1.5)
    prior_counts,   \* self.prior_counts
    use_sparse,     \* self.use_sparse
    datasets,       \* the sequences the caller will pass to fit, in order
    self,           \* the fitted fields of the instance (lines 95-105, 132)
    frame,          \* locals of the running fit / _optimize call, and its position
    clock,          \* time.time(), a logical clock
    trace           \* observation of the current / last call (not program state)

vars == <<lag_time, prior_counts, use_sparse, datasets, self, frame, clock, trace>>

-----------------------------------------------------------------------------
(* Bounds of the model *)

\* objective evaluations in one behaviour (the largest value of the clock)
MaxClock == 3

\* datasets a caller that refits the same instance passes to fit
MaxFits == 2

MaxCalls == 2

(* Input domains *)

\* lag times in half units: -1.0, 0.0, 0.5, 1.0
LagTimes == {-2, 0, 1, 2}

\* state counts the counting collaborator finds (countsmat.shape[0]): in a
\* dataset of a caller that fits once, and of a caller that refits
StateCounts == {1, 2, 3}

RefitStateCounts == {1, 2}

PriorCounts == {0, 1}

\* observed counts the counting collaborator produces: diagonal and
\* off-diagonal entry
CountLevels == {<<2, 0>>}

\* values the optimizer may return for an exchange parameter: the lower
\* bound -20 (below the cutoff) and -18 (above it)
ExchVals == {-20, -18}

\* value the optimizer returns for a population parameter (within [-20, 0])
PopVals == {-1}

\* np.log(sflat) in the initial guess: log(1e-10) = -23.02... (the floor), or
\* a value above -19
LogSflat == {-23, -18}

\* log-likelihood values the oracle may return
FVals == {-1, 0}

\* Python's None, and a value that is present (an optional is a sequence of
\* length 0 or 1)
None == <<>>

Some(v) == <<v>>

Val(o) == o[1]

-----------------------------------------------------------------------------
(* Pure helpers *)

\* int(self.lag_time): truncation toward zero of a value given in half units
IntOf(h) == IF h >= 0 THEN h \div 2 ELSE -((-h) \div 2)

\* float(self.lag_time): the value itself, still in half units
FloatOf(h) == h

LagTimeInvalid_negative(h) == IntOf(h) < 0

\* lag_time < 1
LagTimeInvalid(h) == IntOf(h) < 1

\* nc2 = int(n*(n-1)/2)
Nc2(n) == (n * (n - 1)) \div 2

\* theta_cutoff = np.log(1e-8) = -18.42...; on integers x > -18.42 iff x > -19
theta_cutoff == -19

\* countsmat + scalar (numpy broadcast)
AddScalar(M, p) == [ij \in DOMAIN M |-> M[ij] + p]

\* a counts matrix of the counting collaborator: n x n, 0-based indices
CountsMatrix(n, d, o) ==
    [ij \in (0..(n-1)) \X (0..(n-1)) |-> IF ij[1] = ij[2] THEN d ELSE o]

\* countsmat.shape[0]
Shape0(M) == Cardinality({ij[1] : ij \in DOMAIN M})


\* half-open index list 0 .. m-1 as a sequence (np.arange(m))
Arange(m) == [k \in 1..m |-> k - 1]

\* bounds0 = [(-20, None)]*nc2 + [(-20, 0)]*n
Bounds0(n) ==
    [k \in 1..(Nc2(n) + n) |->
        IF k <= Nc2(n) THEN [lo |-> -20, hi |-> None]
                        ELSE [lo |-> -20, hi |-> Some(0)]]

\* bounds1 = [bounds0[i] for i in inds1]
Bounds1(n, inds1) == [k \in 1..Len(inds1) |-> Bounds0(n)[inds1[k] + 1]]

\* result0.x[inds1]
Take(x, inds) == [k \in 1..Len(inds) |-> x[inds[k] + 1]]

\* the box constraint L-BFGS-B keeps its iterates in
InBounds(x, bounds) ==
    \A k \in 1..Len(x) :
        /\ x[k] >= bounds[k].lo
        /\ bounds[k].hi = None \/ x[k] <= Val(bounds[k].hi)

\* the points scipy.optimize.minimize may return for a start x0 (only its
\* length matters), the full-layout index of each coordinate and the bounds
MinimizeX(x0, layout, n, bounds) ==
    {x \in [1..Len(x0) -> ExchVals \cup PopVals] :
        /\ \A k \in 1..Len(x0) :
              x[k] \in (IF layout[k] < Nc2(n) THEN ExchVals ELSE PopVals)
        /\ InBounds(x, bounds)}

\* inds1 = np.concatenate((np.where(result0.x[:nc2] > theta_cutoff)[0],
\*                         nc2 + np.arange(n)))
Inds1(x, n) ==
    SelectSeq(Arange(Nc2(n)), LAMBDA i : x[i + 1] > theta_cutoff)
        \o [j \in 1..n |-> Nc2(n) + j - 1]

\* (len(inds1) == nc2 + n) or (not self.use_sparse)
SkipPhase1(inds1, n, sparse) == (Len(inds1) = Nc2(n) + n) \/ ~sparse

Phase1Better_worse(result1, result0) == result1.fun > result0.fun

Phase1Better_tie(result1, result0) == result1.fun <= result0.fun

\* result1.fun < result0.fun
Phase1Better(result1, result0) == result1.fun < result0.fun

\* the selection of lines 201-209
Select(result0, result1, inds1) ==
    IF Phase1Better(result1, result0)
    THEN [result |-> result1, inds |-> inds1]
    ELSE [result |-> result0, inds |-> None]

\* the arguments objective() hands to _ratematrix.loglikelihood besides theta
OracleArgs(countsmat, n, inds, lag) ==
    [counts |-> Some(countsmat), n |-> Some(n), inds |-> inds,
     t |-> Some(FloatOf(lag))]

\* the matrix initial_guess hands to _transmat_mle_prinz
PrinzInput(countsmat, prior) == AddScalar(countsmat, prior)

\* the matrix fit hands to _optimize
OptimizeInput(countsmat, prior) == AddScalar(countsmat, prior)

\* the arguments _build_information hands to _ratematrix.hessian
HessianArgs(s, lag) ==
    [theta |-> s.theta_, counts |-> s.countsmat_, n |-> s.n_states_,
     inds |-> s.inds_, t |-> Some(FloatOf(lag))]

\* state the Hessian kernel cannot work on (a field still None)
AbsentState(args) == args.theta = None \/ args.counts = None \/ args.n = None

\* uninterpreted kernels
BuildRatemat(x, n, inds) == <<"K", x, n, inds>>
Expm(K) == <<"expm", K>>
Populations(x, n) == <<"pi", SubSeq(x, Len(x) - n + 1, Len(x))>>
Timescales(K) == <<"timescales", K>>
Pinv(args) == [tag |-> "pinv(-hessian)", args |-> args]

-----------------------------------------------------------------------------
(* State *)

\* __init__, lines 95-105 (timescales_ is not created there: absent)
Unfitted ==
    [inds_ |-> None, theta_ |-> None, ratemat_ |-> None, transmat_ |-> None,
     countsmat_ |-> None, n_states_ |-> None, optimizer_state_ |-> None,
     mapping_ |-> None, populations_ |-> None, information_ |-> None,
     loglikelihoods_ |-> None, timescales_ |-> None]

IdleFrame ==
    [pc |-> "idle", countsmat |-> None, mapping |-> None, n |-> 0,
     optcounts |-> None, theta0 |-> None, loglikelihoods |-> <<>>,
     evals |-> 0, result0 |-> None, inds1 |-> None, result1 |-> None,
     value |-> None]

NoTrace ==
    [op |-> "none", outcome |-> "none", pre |-> Unfitted, called |-> {},
     prinz |-> None, hessian |-> None, fitOracle |-> None,
     fitted |-> FALSE, builds |-> 0]

\* a dataset, as the counts matrix _transition_counts makes of it
Datasets(counts) ==
    {CountsMatrix(n, c[1], c[2]) : n \in counts, c \in CountLevels}

\* a fresh instance with any configuration
Constructed ==
    /\ lag_time \in LagTimes
    /\ prior_counts \in PriorCounts
    /\ use_sparse \in BOOLEAN
    /\ self = Unfitted
    /\ frame = IdleFrame
    /\ clock = 0
    /\ trace = NoTrace

\* a caller that fits the instance MaxFits times
Init ==
    /\ Constructed
    /\ datasets \in [1..MaxFits -> Datasets(RefitStateCounts)]

\* a caller that fits the instance once
InitOnce ==
    /\ Constructed
    /\ datasets \in [1..1 -> Datasets(StateCounts)]

Config == <<lag_time, prior_counts, use_sparse, datasets>>

\* a call that starts: what the observation records
Begin(name) ==
    [trace EXCEPT !.op = name, !.outcome = "running", !.pre = self,
                  !.called = {}, !.prinz = None, !.hessian = None]

\* an exception leaves fit: the frame is dropped
Raise(kind) ==
    /\ frame' = IdleFrame
    /\ trace' = [trace EXCEPT !.outcome = kind]


Max(a, b) == IF a > b THEN a ELSE b

Min(a, b) == IF a < b THEN a ELSE b

-----------------------------------------------------------------------------
(* fit, lines 108-134, and _optimize, lines 150-212 *)

\* lines 109-112: the lag time does not pass validation
FitInvalidLag ==
    /\ frame.pc = "idle"
    /\ LagTimeInvalid(lag_time)
    /\ trace' = [Begin("fit") EXCEPT !.outcome = "ValueError", !.fitted = FALSE]
    /\ UNCHANGED <<Config, self, frame, clock>>

\* line 113: the counting collaborator raises
FitCountingFails ==
    /\ frame.pc = "idle"
    /\ ~LagTimeInvalid(lag_time)
    /\ datasets # <<>>
    /\ trace' = [Begin("fit") EXCEPT !.outcome = "raised", !.fitted = FALSE,
                                     !.called = {"_transition_counts"}]
    /\ UNCHANGED <<Config, self, frame, clock>>

\* lines 109-116: validation passes, the counts are taken, _optimize is entered
FitCount ==
    /\ frame.pc = "idle"
    /\ ~LagTimeInvalid(lag_time)
    /\ clock + 2 <= MaxClock
    /\ datasets # <<>>
    /\ LET countsmat == Head(datasets)
           n == Shape0(countsmat)
       IN frame' = [IdleFrame EXCEPT
                       !.pc = "guess",
                       !.countsmat = Some(countsmat),
                       !.mapping = Some([i \in 0..(n - 1) |-> i]),
                       !.n = n,
                       !.optcounts = Some(OptimizeInput(countsmat, prior_counts))]
    /\ datasets' = Tail(datasets)
    /\ trace' = [Begin("fit") EXCEPT !.fitted = FALSE,
                                     !.called = {"_transition_counts"}]
    /\ UNCHANGED <<lag_time, prior_counts, use_sparse, self, clock>>

\* lines 151-157 and initial_guess, lines 250-261
InitialGuess ==
    /\ frame.pc = "guess"
    /\ \E s \in LogSflat, p \in PopVals :
          frame' = [frame EXCEPT
                       !.pc = "phase0",
                       !.theta0 = Some([k \in 1..(Nc2(frame.n) + frame.n) |->
                                          IF k <= Nc2(frame.n) THEN Max(-19, s) ELSE p])]
    /\ trace' = [trace EXCEPT
                    !.called = @ \cup {"_transmat_mle_prinz"},
                    !.prinz = Some(PrinzInput(Val(frame.optcounts), prior_counts))]
    /\ UNCHANGED <<Config, self, clock>>

Objective_prepend(len) ==
    /\ \E f \in FVals :
          frame' = [frame EXCEPT
                       !.loglikelihoods = <<(<<f, clock, len>>)>> \o @,
                       !.evals = @ + 1]
    /\ clock' = clock + 1
    /\ trace' = [trace EXCEPT !.called = @ \cup {"loglikelihood"}]
    /\ UNCHANGED <<Config, self>>

\* objective(theta, inds), lines 165-171: one evaluation of the oracle at a
\* theta of the given length, appended to the local list
Objective(len) ==
    /\ \E f \in FVals :
          frame' = [frame EXCEPT
                       !.loglikelihoods = Append(@, <<f, clock, len>>),
                       !.evals = @ + 1]
    /\ clock' = clock + 1
    /\ trace' = [trace EXCEPT !.called = @ \cup {"loglikelihood"}]
    /\ UNCHANGED <<Config, self>>

\* an evaluation made by the phase-0 minimize call, lines 183-185
Objective0 ==
    /\ frame.pc = "phase0"
    /\ clock + 1 < MaxClock
    /\ Objective(Len(Val(frame.theta0)))

\* an evaluation made by the phase-1 minimize call, lines 197-199
Objective1 ==
    /\ frame.pc = "phase1"
    /\ clock < MaxClock
    /\ Objective(Len(Take(Val(frame.result0).x, Val(frame.inds1))))

\* the objective values minimize may report: the negation of an evaluation of
\* this call (the last `evals` entries of the list)
MinimizeFun(loglikelihoods, evals) ==
    {-loglikelihoods[k][1] :
        k \in (Len(loglikelihoods) - evals + 1)..Len(loglikelihoods)}

\* line 211
Publish(s, loglikelihoods) == [s EXCEPT !.loglikelihoods_ = Some(loglikelihoods)]

\* lines 183-194 (and 211-212 when phase 1 is skipped)
Phase0Done ==
    /\ frame.pc = "phase0"
    /\ frame.evals >= 1
    /\ LET n == frame.n IN
       \E x \in MinimizeX(Val(frame.theta0), Arange(Nc2(n) + n), n, Bounds0(n)),
          fun \in MinimizeFun(frame.loglikelihoods, frame.evals) :
          LET result0 == [x |-> x, fun |-> fun, nfev |-> frame.evals, phase |-> 0]
              inds1 == Inds1(x, n)
          IN  IF SkipPhase1(inds1, n, use_sparse)
              THEN /\ frame' = [frame EXCEPT
                                  !.pc = "derive", !.evals = 0,
                                  !.theta0 = None,
                                  !.result0 = Some(result0),
                                  !.inds1 = Some(inds1),
                                  !.value = Some([result |-> result0, inds |-> None])]
                   /\ self' = Publish(self, frame.loglikelihoods)
              ELSE /\ frame' = [frame EXCEPT
                                  !.pc = "phase1", !.evals = 0,
                                  !.theta0 = None,
                                  !.result0 = Some(result0),
                                  !.inds1 = Some(inds1)]
                   /\ self' = self
    /\ trace' = [trace EXCEPT !.called = @ \cup {"minimize"}]
    /\ UNCHANGED <<Config, clock>>

\* lines 196-212
Phase1Done ==
    /\ frame.pc = "phase1"
    /\ frame.evals >= 1
    /\ LET n == frame.n
           result0 == Val(frame.result0)
           inds1 == Val(frame.inds1)
       IN
       \E x \in MinimizeX(Take(result0.x, inds1), inds1, n, Bounds1(n, inds1)),
          fun \in MinimizeFun(frame.loglikelihoods, frame.evals) :
          LET result1 == [x |-> x, fun |-> fun, nfev |-> frame.evals, phase |-> 1] IN
          frame' = [frame EXCEPT
                       !.pc = "derive", !.evals = 0,
                       !.result1 = Some(result1),
                       !.value = Some(Select(result0, result1, Some(inds1)))]
    /\ self' = Publish(self, frame.loglikelihoods)
    /\ trace' = [trace EXCEPT !.called = @ \cup {"minimize"}]
    /\ UNCHANGED <<Config, clock>>

\* a minimize call (or the oracle under it) raises
OptimizerFails ==
    /\ frame.pc \in {"phase0", "phase1"}
    /\ Raise("raised")
    /\ UNCHANGED <<Config, self, clock>>

\* lines 118-124
AssignRatemat ==
    /\ frame.pc = "derive"
    /\ LET value == Val(frame.value)
           K == BuildRatemat(value.result.x, frame.n, value.inds)
       IN  /\ self' = [self EXCEPT
                          !.inds_ = value.inds,
                          !.theta_ = Some(value.result.x),
                          !.ratemat_ = Some(K)]
           /\ trace' = [trace EXCEPT
                          !.called = @ \cup {"build_ratemat"},
                          !.fitOracle = Some(OracleArgs(Val(frame.optcounts), frame.n,
                                                        value.inds, lag_time))]
    /\ frame' = [frame EXCEPT !.pc = "expm"]
    /\ UNCHANGED <<Config, clock>>

\* line 120 raises
BuildRatematFails ==
    /\ frame.pc = "derive"
    /\ Raise("raised")
    /\ UNCHANGED <<Config, self, clock>>

\* lines 125-131
AssignRest ==
    /\ frame.pc = "expm"
    /\ LET value == Val(frame.value) IN
       self' = [self EXCEPT
                   !.transmat_ = Some(Expm(Val(self.ratemat_))),
                   !.countsmat_ = frame.countsmat,
                   !.n_states_ = Some(frame.n),
                   !.optimizer_state_ = Some(value.result),
                   !.mapping_ = frame.mapping,
                   !.populations_ = Some(Populations(value.result.x, frame.n)),
                   !.information_ = None]
    /\ frame' = [frame EXCEPT !.pc = "eig"]
    /\ trace' = [trace EXCEPT !.called = @ \cup {"expm"}]
    /\ UNCHANGED <<Config, clock>>

\* line 125 raises
ExpmFails ==
    /\ frame.pc = "expm"
    /\ Raise("raised")
    /\ UNCHANGED <<Config, self, clock>>

\* lines 132-134
FitReturn ==
    /\ frame.pc = "eig"
    /\ self' = [self EXCEPT !.timescales_ = Some(Timescales(Val(self.ratemat_)))]
    /\ frame' = IdleFrame
    /\ trace' = [trace EXCEPT !.outcome = "returned", !.fitted = TRUE,
                              !.builds = 0,
                              !.called = @ \cup {"eigvals"}]
    /\ UNCHANGED <<Config, clock>>

\* line 132 raises
EigvalsFails ==
    /\ frame.pc = "eig"
    /\ Raise("raised")
    /\ UNCHANGED <<Config, self, clock>>

-----------------------------------------------------------------------------
(* uncertainty_K / uncertainty_pi / uncertainty_timescales, lines 214-248, *)
(* with _build_information, lines 263-272                                  *)

NeedsBuild_always(s) == TRUE

\* information_ is None: the accessor calls _build_information
NeedsBuild(s) == s.information_ = None

Uncertainty(name, kernel) ==
    /\ frame.pc = "idle"
    /\ LET args == HessianArgs(self, lag_time)
           t0 == Begin(name)
       IN  IF NeedsBuild(self)
           THEN IF AbsentState(args)
                THEN \* the Hessian kernel is handed None and raises
                     /\ self' = self
                     /\ trace' = [t0 EXCEPT !.outcome = "raised",
                                            !.called = {"hessian"},
                                            !.hessian = Some(args),
                                            !.builds = Min(@ + 1, MaxCalls)]
                ELSE /\ self' = [self EXCEPT !.information_ = Some(Pinv(args))]
                     /\ trace' = [t0 EXCEPT !.outcome = "returned",
                                            !.called = {"hessian", "pinv", kernel},
                                            !.hessian = Some(args),
                                            !.builds = Min(@ + 1, MaxCalls)]
           ELSE /\ self' = self
                /\ trace' = [t0 EXCEPT !.outcome = "returned",
                                       !.called = {kernel}]
    /\ UNCHANGED <<Config, frame, clock>>

uncertainty_K == Uncertainty("uncertainty", "sigma")

uncertainty_pi == Uncertainty("uncertainty", "sigma")

uncertainty_timescales == Uncertainty("uncertainty", "sigma")

-----------------------------------------------------------------------------

Next ==
    \/ FitInvalidLag
    \/ FitCountingFails
    \/ FitCount
    \/ InitialGuess
    \/ Objective0
    \/ Phase0Done
    \/ Objective1
    \/ Phase1Done
    \/ OptimizerFails
    \/ AssignRatemat
    \/ BuildRatematFails
    \/ AssignRest
    \/ ExpmFails
    \/ FitReturn
    \/ EigvalsFails
    \/ uncertainty_K
    \/ uncertainty_pi
    \/ uncertainty_timescales

Spec == Init /\ [][Next]_vars

SpecOnce == InitOnce /\ [][Next]_vars

-----------------------------------------------------------------------------
(* Properties *)

Running == frame.pc # "idle"

\* the full parameter count nc2 + n of the running fit
FullCount == Nc2(frame.n) + frame.n

IsPrefix(a, b) == Len(a) <= Len(b) /\ SubSeq(b, 1, Len(a)) = a

Range(q) == {q[k] : k \in 1..Len(q)}

\* C1: a fit whose lag time converts to an integer below 1 ends with the
\* configuration error, calls no collaborator (counting, initial guess,
\* optimizer, kernels) and leaves every fitted field as it was at the call.
C1_InvalidLagRaisesFirst ==
    (trace.op = "fit" /\ IntOf(lag_time) < 1) =>
        /\ frame.pc = "idle"
        /\ trace.outcome = "ValueError"
        /\ trace.called = {}
        /\ self = trace.pre

\* the case of C1: lag_time 0.5, which int() truncates to 0, was rejected
C1_Witness ==
    /\ trace.op = "fit"
    /\ lag_time = 1
    /\ trace.outcome = "ValueError"

\* C2: the solution _optimize selects has at most nc2 + n parameters and an
\* objective value no larger than that of phase 0.
C2_SelectionNeverRegresses ==
    frame.value # None =>
        /\ Len(Val(frame.value).result.x) <= FullCount
        /\ Val(frame.value).result.fun <= Val(frame.result0).fun

\* the case of C2: phase 1 ran with a worse objective and was discarded
C2_Witness ==
    /\ frame.value # None
    /\ frame.result1 # None
    /\ Val(frame.result1).fun > Val(frame.result0).fun
    /\ Val(frame.value).result = Val(frame.result0)

C4_FailsFastWhenNotFitted ==
    (/\ trace.op = "uncertainty"
     /\ trace.pre.theta_ = None
     /\ trace.pre.countsmat_ = None
     /\ trace.pre.n_states_ = None) =>
        /\ trace.outcome = "NotFittedError"
        /\ trace.called = {}
        /\ self.information_ = None

\* C5 (as claimed): a fit that raises leaves every fitted field at the value
\* it had before the call.
C5_FitIsAtomic ==
    (/\ trace.op = "fit"
     /\ frame.pc = "idle"
     /\ trace.outcome # "returned") => self = trace.pre

\* C6 (as claimed): whenever information_ is present it was built from the
\* model's current theta_ and inds_.
C6_InformationIsCurrent ==
    (~Running /\ self.information_ # None) =>
        /\ Val(self.information_).args.theta = self.theta_
        /\ Val(self.information_).args.inds = self.inds_

\* the condition under which C7 says the sparse solution is adopted
SparseAdopted ==
    /\ use_sparse
    /\ \E k \in 1..Nc2(frame.n) : Val(frame.result0).x[k] <= theta_cutoff
    /\ frame.result1 # None
    /\ Val(frame.result1).fun < Val(frame.result0).fun

\* C7: the fitted model carries a restricted index set, with the theta and
\* optimizer state of phase 1, exactly when pruning is enabled, some phase-0
\* exchange parameter is at or below the cutoff and phase 1 is strictly
\* better; otherwise it keeps the phase-0 result with inds None.  The
\* detected support holds every population index.
C7_SparseIffStrictlyBetter ==
    frame.pc = "eig" =>
        /\ self.inds_ # None <=> SparseAdopted
        /\ SparseAdopted =>
              /\ self.inds_ = frame.inds1
              /\ self.theta_ = Some(Val(frame.result1).x)
              /\ self.optimizer_state_ = frame.result1
        /\ ~SparseAdopted =>
              /\ self.inds_ = None
              /\ self.theta_ = Some(Val(frame.result0).x)
              /\ self.optimizer_state_ = frame.result0
        /\ \A j \in 0..(frame.n - 1) :
              (Nc2(frame.n) + j) \in Range(Val(frame.inds1))

\* the case of C7: phase 1 ran and tied with phase 0, and was discarded
C7_Witness ==
    /\ frame.pc = "eig"
    /\ frame.result1 # None
    /\ Val(frame.result1).fun = Val(frame.result0).fun
    /\ self.inds_ = None

\* C8 (as claimed): the Hessian kernel receives the counts matrix, state
\* count, index set and lag time the likelihood oracle received in the
\* optimization that produced theta_.
C8_HessianSeesOracleInputs ==
    (trace.fitted /\ trace.hessian # None) =>
        LET h == Val(trace.hessian)
            o == Val(trace.fitOracle)
        IN  /\ h.counts = o.counts
            /\ h.n = o.n
            /\ h.inds = o.inds
            /\ h.t = o.t

\* C9 (as claimed): the baseline discrete-time estimator is handed the
\* observed counts with the prior added once, the matrix the oracle sees.
C9_PriorAddedOnce ==
    (Running /\ trace.prinz # None) =>
        /\ Val(trace.prinz) = AddScalar(Val(frame.countsmat), prior_counts)
        /\ Val(trace.prinz) = Val(frame.optcounts)

\* the entries of the trace after _optimize has returned: phase 0 first, at
\* the full dimensionality, then phase 1 at the size of the detected support
TraceShape(ll) ==
    LET nfev0 == Val(frame.result0).nfev
        nfev1 == IF frame.result1 = None THEN 0 ELSE Val(frame.result1).nfev
    IN  /\ Len(ll) = nfev0 + nfev1
        /\ \A k \in 1..Len(ll) :
              ll[k][3] = IF k <= nfev0 THEN FullCount ELSE Len(Val(frame.inds1))
        /\ \A k \in 1..(Len(ll) - 1) : ll[k][2] < ll[k + 1][2]

\* C10: within one fit the log-likelihood list only grows at its end, by
\* one entry per evaluation; what _optimize publishes is the whole list, in
\* evaluation order, phase-0 entries at dimension nc2 + n before phase-1
\* entries at the size of the support, also when phase 1 is discarded.
C10_TraceAppendOnly ==
    /\ [](frame.pc \in {"derive", "expm", "eig"} =>
            /\ self.loglikelihoods_ = Some(frame.loglikelihoods)
            /\ TraceShape(frame.loglikelihoods))
    /\ [][(Running /\ frame'.pc # "idle") =>
            /\ IsPrefix(frame.loglikelihoods, frame'.loglikelihoods)
            /\ Len(frame'.loglikelihoods) =
                  Len(frame.loglikelihoods) + (frame'.evals - frame.evals)
                  \/ frame'.evals = 0]_vars

\* the case of C10: phase 1 was evaluated and discarded, and its entries are
\* in the published trace
C10_Witness ==
    /\ frame.pc = "derive"
    /\ frame.result1 # None
    /\ Val(frame.value).inds = None
    /\ \E k \in 1..Len(Val(self.loglikelihoods_)) :
          Val(self.loglikelihoods_)[k][3] < FullCount

=============================================================================
